---- MODULE Spec2Model ----
(***************************************************************************)
(* A model of train.py: the command-line entry point and train(), the      *)
(* training orchestration of the CycleGAN voice converter.                 *)
(*                                                                         *)
(* Text is a sequence of one-character strings, so that str(), lower()     *)
(* and the f-strings that build file names are computed, not assumed.      *)
(* An optional value (Python's None) is the empty tuple, a present value   *)
(* x is <<x>>.                                                             *)
(* Learning rates are counted in units of 1e-11 (0.0002 = 20000000) and    *)
(* the identity-loss weight in units of 0.1 (5 = 50, 0.5 = 5), so that     *)
(* every value of the schedule is an integer.                              *)
(* Arrays (waveforms, features, statistics, model parameters) are          *)
(* symbolic: a value records what it was computed from.                    *)
(***************************************************************************)
EXTENDS Integers, Sequences, FiniteSets, TLC

(* ------------------------------ bounds --------------------------------- *)
\* most utterances per domain that are long enough to be sampled
MaxCorpus == 2
\* most files in the validation directory
MaxValFiles == 2
\* the utterances per domain of the large corpus of SpecSchedule
BigCorpus == 10000
\* the iterations SpecSchedule follows from each of its starting points
SchedWindow == 5

(* ------------------------- program constants --------------------------- *)
num_epochs == 500
mini_batch_size == 1
\* 0.0002, in units of 1e-11
generator_learning_rate_init == 20000000
\* 0.0001, in units of 1e-11
discriminator_learning_rate_init == 10000000
\* the divisor of both decays
decay_divisor == 5000000
generator_learning_rate_decay == generator_learning_rate_init \div decay_divisor
discriminator_learning_rate_decay == discriminator_learning_rate_init \div decay_divisor
\* 0.00001, in units of 1e-11
learning_rate_floor == 1000000
\* the iteration counter beyond which the schedule changes
schedule_threshold == 100000
\* 5, in units of 0.1
lambda_identity_init == 50
\* 0.5, in units of 0.1
lambda_identity_reduced == 5
lambda_cycle == 10
default_n_frames == 128
validation_period == 5

(* ------------------------------- text ---------------------------------- *)
None == << >>
Some(x) == << x >>
IsNone(o) == o = None
Val(o) == o[1]

DigitChars == << "0", "1", "2", "3", "4", "5", "6", "7", "8", "9" >>

IsDigit(c) == \E k \in 1..Len(DigitChars) : DigitChars[k] = c

DigitValue(c) == (CHOOSE k \in 1..Len(DigitChars) : DigitChars[k] = c) - 1

RECURSIVE StrNat(_)
\* str() of a natural number
StrNat(n) ==
    IF n < Len(DigitChars) THEN << DigitChars[n + 1] >>
    ELSE StrNat(n \div Len(DigitChars)) \o << DigitChars[(n % Len(DigitChars)) + 1] >>

\* str() of an optional integer: str(None) is "None"
Str(o) == IF IsNone(o) THEN << "N", "o", "n", "e" >> ELSE StrNat(Val(o))

RECURSIVE ParseNat(_)
\* int() of a non-empty text of digits
ParseNat(s) ==
    IF Len(s) = 1 THEN DigitValue(s[1])
    ELSE ParseNat(SubSeq(s, 1, Len(s) - 1)) * Len(DigitChars) + DigitValue(s[Len(s)])

\* the texts that argparse's type=int accepts (digits only are modelled)
IsIntText(s) == Len(s) > 0 /\ \A k \in 1..Len(s) : IsDigit(s[k])

LowerChar(c) ==
    CASE c = "N" -> "n"
      [] c = "O" -> "o"
      [] c = "E" -> "e"
      [] OTHER -> c

\* str.lower()
Lower(s) == [k \in 1..Len(s) |-> LowerChar(s[k])]

(* ---------------------------- file system ------------------------------ *)
\* a directory is a function from file names to contents
EmptyDir == [x \in {} |-> None]

WriteFile(dir, name, content) ==
    [x \in (DOMAIN dir) \cup {name} |-> IF x = name THEN content ELSE dir[x]]

Exists(dir, name) == name \in DOMAIN dir

\* logf0s_normalization.npz
LogF0Archive ==
    << "l", "o", "g", "f", "0", "s", "_", "n", "o", "r", "m", "a", "l", "i", "z", "a",
       "t", "i", "o", "n", ".", "n", "p", "z" >>

\* mcep_normalization.npz
McepArchive ==
    << "m", "c", "e", "p", "_", "n", "o", "r", "m", "a", "l", "i", "z", "a", "t", "i",
       "o", "n", ".", "n", "p", "z" >>

(* ------------------------------ inputs --------------------------------- *)
\* --num_f: absent, a number, or a text that is no number
NumFArgs == { None, Some(<< "1", "2", "8" >>), Some(<< "6", "4" >>), Some(<< "x" >>) }

\* --validation_A_dir
ValidationDirArgs == { << "n", "o", "n", "e" >>, << "N", "O", "N", "E" >>, << "v", "a", "l" >> }

\* --model_name
ModelNameArgs == { << "m" >>, << "1", "2", "8", "_", "m" >> }

\* the k-th name of a validation directory: a, 5_a, 10_a, ...
ValFileName(k) == IF k = 1 THEN << "a" >> ELSE StrNat(5 * (k - 1)) \o << "_", "a" >>

ValFileNames == [k \in 1..MaxValFiles |-> ValFileName(k)]

(* ------------------------------- state --------------------------------- *)
VARIABLES
    argv,                          \* the command line, as given
    env,                           \* the corpus and the validation directory on disk
    pc,                            \* the position of the program
    failure,                       \* the call whose exception ended the run, if any
    n_frames,                      \* train()'s n_frames, optional
    validation_A_dir,              \* train()'s validation_A_dir, optional
    stats,                         \* the fitted statistics, optional
    model_dir,                     \* the files of the model directory
    validation_A_output_dir,       \* the files of the validation output directory, optional
    model,                         \* the CycleGAN model, optional
    epoch,                         \* the epoch loop's variable
    i,                             \* the iteration loop's variable
    n_samples,                     \* the segments sampled for this epoch
    num_iterations,                \* the global iteration counter
    lambda_identity,
    generator_learning_rate,
    discriminator_learning_rate,
    lastCall,                      \* the arguments of the latest model.train call, optional
    todo,                          \* the validation files still to convert in this pass
    epochSaves,                    \* how many per-epoch checkpoints were written
    valEpochs,                     \* the epochs whose validation pass was started
    loads,                         \* how many times model.load was called
    wav_synthesized,               \* what world_speech_synthesis returned, optional
    wav_transformed                \* the waveform to write, optional

vars == << argv, env, pc, failure, n_frames, validation_A_dir, stats, model_dir,
           validation_A_output_dir, model, epoch, i, n_samples, num_iterations,
           lambda_identity, generator_learning_rate, discriminator_learning_rate,
           lastCall, todo, epochSaves, valEpochs, loads, wav_synthesized,
           wav_transformed >>

\* the waveform of the file being converted
sound == << wav_synthesized, wav_transformed >>

schedule == << num_iterations, lambda_identity, generator_learning_rate,
               discriminator_learning_rate >>

loop == << epoch, i, n_samples >>

\* a checkpoint left in the model directory by an earlier run
OldCheckpoint == [kind |-> "checkpoint", model |-> [base |-> "earlier run", updates |-> 0]]

\* the validation directory disables validation when its name is none in any case
NamesNone(dir) == Lower(dir) = << "n", "o", "n", "e" >>

Listings == { SubSeq(ValFileNames, 1, k) : k \in 0..MaxValFiles }

Init ==
    /\ argv \in [num_f : NumFArgs, validation_A_dir : ValidationDirArgs,
                 model_name : ModelNameArgs]
    /\ env \in [usable : 0..MaxCorpus, listing : Listings]
    /\ NamesNone(argv.validation_A_dir) => env.listing = << >>
    /\ model_dir \in { EmptyDir, WriteFile(EmptyDir, argv.model_name, OldCheckpoint) }
    /\ pc = "parse"
    /\ failure = None
    /\ n_frames = None
    /\ validation_A_dir = None
    /\ stats = None
    /\ validation_A_output_dir = None
    /\ model = None
    /\ epoch = 0
    /\ i = 0
    /\ n_samples = 0
    /\ num_iterations = 0
    /\ lambda_identity = lambda_identity_init
    /\ generator_learning_rate = generator_learning_rate_init
    /\ discriminator_learning_rate = discriminator_learning_rate_init
    /\ lastCall = None
    /\ todo = << >>
    /\ epochSaves = 0
    /\ valEpochs = {}
    /\ loads = 0
    /\ wav_synthesized = None
    /\ wav_transformed = None

Crash(what) ==
    /\ pc' = "crashed"
    /\ failure' = Some(what)

(* ------------------------------ __main__ ------------------------------- *)
\* parser.parse_args() and the conversion of the arguments
ParsedNumF(a) == IF IsNone(a.num_f) THEN None ELSE Some(ParseNat(Val(a.num_f)))

\* none is recognized in lower case only
ParsedValidationDir_CaseSensitive(dir) ==
    IF dir = << "n", "o", "n", "e" >> THEN None ELSE Some(dir)

ParsedValidationDir(dir) == IF Lower(dir) = << "n", "o", "n", "e" >> THEN None ELSE Some(dir)

\* argparse rejects a --num_f that is no integer and exits
ArgsRejected(a) == ~IsNone(a.num_f) /\ ~IsIntText(Val(a.num_f))

ParseArgs ==
    /\ pc = "parse"
    /\ IF ArgsRejected(argv)
       THEN /\ pc' = "usage_error"
            /\ UNCHANGED << n_frames, validation_A_dir >>
       ELSE /\ pc' = "load"
            /\ n_frames' = ParsedNumF(argv)
            /\ validation_A_dir' = ParsedValidationDir(argv.validation_A_dir)
    /\ UNCHANGED << sound, loads, argv, env, failure, stats, model_dir, validation_A_output_dir, model,
                    loop, schedule, lastCall, todo, epochSaves, valEpochs >>

(* ------------------------------- train() ------------------------------- *)
\* load_wavs and world_encode_data of both domains
LoadCorpus ==
    /\ pc = "load"
    /\ pc' = "fit"
    /\ UNCHANGED << sound, loads, argv, env, failure, n_frames, validation_A_dir, stats, model_dir,
                    validation_A_output_dir, model, loop, schedule, lastCall, todo,
                    epochSaves, valEpochs >>

\* a missing or corrupt audio file: the exception leaves train()
LoadCorpusFails ==
    /\ pc = "load"
    /\ Crash("load_wavs")
    /\ UNCHANGED << sound, loads, argv, env, n_frames, validation_A_dir, stats, model_dir,
                    validation_A_output_dir, model, loop, schedule, lastCall, todo,
                    epochSaves, valEpochs >>

\* the statistics of domain d, as logf0_statistics and
\* coded_sps_normalization_fit_transoform return them
FittedStatistics ==
    [ log_f0s_mean_A |-> << "log_f0s_mean", "A" >>, log_f0s_std_A |-> << "log_f0s_std", "A" >>,
      log_f0s_mean_B |-> << "log_f0s_mean", "B" >>, log_f0s_std_B |-> << "log_f0s_std", "B" >>,
      coded_sps_A_mean |-> << "coded_sps_mean", "A" >>,
      coded_sps_A_std |-> << "coded_sps_std", "A" >>,
      coded_sps_B_mean |-> << "coded_sps_mean", "B" >>,
      coded_sps_B_std |-> << "coded_sps_std", "B" >> ]

FitStatistics ==
    /\ pc = "fit"
    /\ stats' = Some(FittedStatistics)
    /\ pc' = "persist"
    /\ UNCHANGED << sound, loads, argv, env, failure, n_frames, validation_A_dir, model_dir,
                    validation_A_output_dir, model, loop, schedule, lastCall, todo,
                    epochSaves, valEpochs >>

LogF0ArchiveOf(st) ==
    [ kind |-> "archive", mean_A |-> st.log_f0s_mean_A, std_A |-> st.log_f0s_std_A,
      mean_B |-> st.log_f0s_mean_B, std_B |-> st.log_f0s_std_B ]

McepArchiveOf(st) ==
    [ kind |-> "archive", mean_A |-> st.coded_sps_A_mean, std_A |-> st.coded_sps_A_std,
      mean_B |-> st.coded_sps_B_mean, std_B |-> st.coded_sps_B_std ]

\* only the pitch archive is written
PersistedDir_PitchOnly(dir, st) == WriteFile(dir, LogF0Archive, LogF0ArchiveOf(st))

\* os.makedirs(model_dir) and the two np.savez calls
PersistedDir(dir, st) ==
    WriteFile(WriteFile(dir, LogF0Archive, LogF0ArchiveOf(st)), McepArchive, McepArchiveOf(st))

PersistStatistics ==
    /\ pc = "persist"
    /\ model_dir' = PersistedDir(model_dir, Val(stats))
    /\ pc' = "outdir"
    /\ UNCHANGED << sound, loads, argv, env, failure, n_frames, validation_A_dir, stats,
                    validation_A_output_dir, model, loop, schedule, lastCall, todo,
                    epochSaves, valEpochs >>

\* the validation output directory is made only when validation is configured
MakeOutputDir ==
    /\ pc = "outdir"
    /\ validation_A_output_dir' =
          IF ~IsNone(validation_A_dir) THEN Some(EmptyDir) ELSE validation_A_output_dir
    /\ pc' = "model"
    /\ UNCHANGED << sound, loads, argv, env, failure, n_frames, validation_A_dir, stats, model_dir, model,
                    loop, schedule, lastCall, todo, epochSaves, valEpochs >>

FreshModel == [base |-> "fresh", updates |-> 0]

\* a checkpoint is loaded whatever n_frames is
LoadsCheckpoint_Always(nf) == TRUE

\* a checkpoint is loaded exactly when n_frames is not the default
LoadsCheckpoint(nf) == nf # Some(default_n_frames)

\* CycleGAN(...) and, for a non-default n_frames, model.load of the canonical name
InitModel ==
    /\ pc = "model"
    /\ IF LoadsCheckpoint(n_frames)
       THEN /\ loads' = loads + 1
            /\ IF Exists(model_dir, argv.model_name)
                   /\ model_dir[argv.model_name].kind = "checkpoint"
               THEN /\ model' = Some(model_dir[argv.model_name].model)
                    /\ pc' = "epoch"
                    /\ UNCHANGED failure
               ELSE /\ model' = Some(FreshModel)
                    /\ Crash("model.load")
       ELSE /\ model' = Some(FreshModel)
            /\ pc' = "epoch"
            /\ UNCHANGED << failure, loads >>
    /\ UNCHANGED << sound, argv, env, n_frames, validation_A_dir, stats, model_dir,
                    validation_A_output_dir, loop, schedule, lastCall, todo, epochSaves,
                    valEpochs >>

(* ----------------------------- the epoch loop --------------------------- *)
\* sample_train_data: one segment per utterance that has at least n_frames frames,
\* the same utterances in every epoch of a run
SampledCount(usable, nf) == usable

\* sample_train_data cannot compare frame counts with a missing n_frames
SampleRaises(nf) == IsNone(nf)

SampleTrainData ==
    /\ pc = "epoch"
    /\ epoch < num_epochs
    /\ IF SampleRaises(n_frames)
       THEN /\ Crash("sample_train_data")
            /\ UNCHANGED << n_samples, i >>
       ELSE /\ n_samples' = SampledCount(env.usable, n_frames)
            /\ i' = 0
            /\ pc' = "train"
            /\ UNCHANGED failure
    /\ UNCHANGED << sound, loads, argv, env, n_frames, validation_A_dir, stats, model_dir,
                    validation_A_output_dir, model, epoch, schedule, lastCall, todo,
                    epochSaves, valEpochs >>

\* the counter restarts with every epoch
NumIterations_PerEpoch(n, e, k) == k

\* num_iterations = n_samples // mini_batch_size * epoch + i
NumIterations(n, e, k) == (n \div mini_batch_size) * e + k

Max(a, b) == IF a >= b THEN a ELSE b

\* the weight drops one iteration early
NextLambdaIdentity_AtThreshold(num, lam) ==
    IF num >= schedule_threshold THEN lambda_identity_reduced ELSE lam

\* if num_iterations > 100000: lambda_identity = 0.5
NextLambdaIdentity(num, lam) ==
    IF num > schedule_threshold THEN lambda_identity_reduced ELSE lam

\* the decay without the floor
NextLearningRate_NoFloor(num, rate, decay) ==
    IF num > schedule_threshold THEN rate - decay ELSE rate

\* the decay starts one iteration early
NextLearningRate_AtThreshold(num, rate, decay) ==
    IF num >= schedule_threshold THEN Max(learning_rate_floor, rate - decay) ELSE rate

\* the decrement is added
NextLearningRate_Grows(num, rate, decay) ==
    IF num > schedule_threshold THEN Max(learning_rate_floor, rate + decay) ELSE rate

\* if num_iterations > 100000: rate = max(0.00001, rate - decay)
NextLearningRate(num, rate, decay) ==
    IF num > schedule_threshold THEN Max(learning_rate_floor, rate - decay) ELSE rate

\* the body of the iteration loop up to the call of model.train
Scheduled ==
    /\ num_iterations' = NumIterations(n_samples, epoch, i)
    /\ lambda_identity' = NextLambdaIdentity(num_iterations', lambda_identity)
    /\ generator_learning_rate' =
          NextLearningRate(num_iterations', generator_learning_rate,
                           generator_learning_rate_decay)
    /\ discriminator_learning_rate' =
          NextLearningRate(num_iterations', discriminator_learning_rate,
                           discriminator_learning_rate_decay)
    /\ lastCall' = Some([ num_iterations |-> num_iterations',
                          epoch |-> epoch,
                          lambda_cycle |-> lambda_cycle,
                          lambda_identity |-> lambda_identity',
                          generator_lr |-> generator_learning_rate',
                          discriminator_lr |-> discriminator_learning_rate' ])

\* the model after one training step: its parameters are updated in place
Trained(m) == [m EXCEPT !.updates = @ + 1]

\* one iteration whose model.train returns
TrainStep ==
    /\ pc = "train"
    /\ i < n_samples \div mini_batch_size
    /\ Scheduled
    /\ model' = Some(Trained(Val(model)))
    /\ i' = i + 1
    /\ UNCHANGED << sound, loads, argv, env, pc, failure, n_frames, validation_A_dir, stats, model_dir,
                    validation_A_output_dir, epoch, n_samples, todo, epochSaves, valEpochs >>

\* the exception is caught and the batch skipped
TrainFailure_SkipBatch ==
    /\ failure' = Some("model.train")
    /\ pc' = pc
    /\ i' = i + 1
    /\ UNCHANGED << model_dir, epochSaves >>

\* what train() does with an exception of model.train: nothing catches it
TrainFailure ==
    /\ Crash("model.train")
    /\ UNCHANGED << i, model_dir, epochSaves >>

\* one iteration whose model.train raises
TrainStepFails ==
    /\ pc = "train"
    /\ i < n_samples \div mini_batch_size
    /\ Scheduled
    /\ TrainFailure
    /\ UNCHANGED << sound, loads, argv, env, n_frames, validation_A_dir, stats,
                    validation_A_output_dir, model, epoch, n_samples, todo, valEpochs >>

CheckpointOf(m) == [kind |-> "checkpoint", model |-> m]

\* the per-epoch checkpoint takes the canonical name
EpochCheckpointName_NoPrefix(nf, name) == name

\* every epoch has a checkpoint file of its own
EpochCheckpointName_PerEpoch(nf, name) ==
    StrNat(epoch) \o << "_" >> \o Str(nf) \o << "_" >> \o name

\* f'{n_frames}_{model_name}'
EpochCheckpointName(nf, name) == Str(nf) \o << "_" >> \o name

\* if validation_A_dir is not None and epoch % 5 == 0
ValidationDue(dir, e) == ~IsNone(dir) /\ e % validation_period = 0

\* the checkpoint is written only in the epochs that validate
SaveEpoch_OnlyWhenValidating ==
    /\ pc = "train"
    /\ i >= n_samples \div mini_batch_size
    /\ IF ValidationDue(validation_A_dir, epoch)
       THEN /\ model_dir' = WriteFile(model_dir,
                                      EpochCheckpointName(n_frames, argv.model_name),
                                      CheckpointOf(Val(model)))
            /\ epochSaves' = epochSaves + 1
       ELSE UNCHANGED << model_dir, epochSaves >>
    /\ pc' = "saved"
    /\ UNCHANGED << sound, loads, argv, env, failure, n_frames, validation_A_dir, stats,
                    validation_A_output_dir, model, loop, schedule, lastCall, todo,
                    valEpochs >>

\* model.save at the end of the epoch
SaveEpoch ==
    /\ pc = "train"
    /\ i >= n_samples \div mini_batch_size
    /\ model_dir' = WriteFile(model_dir, EpochCheckpointName(n_frames, argv.model_name),
                              CheckpointOf(Val(model)))
    /\ epochSaves' = epochSaves + 1
    /\ pc' = "saved"
    /\ UNCHANGED << sound, loads, argv, env, failure, n_frames, validation_A_dir, stats,
                    validation_A_output_dir, model, loop, schedule, lastCall, todo,
                    valEpochs >>

\* os.listdir(validation_A_dir)
BeginValidation ==
    /\ pc = "saved"
    /\ ValidationDue(validation_A_dir, epoch)
    /\ todo' = env.listing
    /\ valEpochs' = valEpochs \cup {epoch}
    /\ pc' = "validate"
    /\ UNCHANGED << sound, loads, argv, env, failure, n_frames, validation_A_dir, stats, model_dir,
                    validation_A_output_dir, model, loop, schedule, lastCall, epochSaves >>

\* no validation in this epoch: on to the next epoch
SkipValidation ==
    /\ pc = "saved"
    /\ ~ValidationDue(validation_A_dir, epoch)
    /\ epoch' = epoch + 1
    /\ pc' = "epoch"
    /\ UNCHANGED << sound, loads, argv, env, failure, n_frames, validation_A_dir, stats, model_dir,
                    validation_A_output_dir, model, i, n_samples, schedule, lastCall, todo,
                    epochSaves, valEpochs >>

\* the output is named after the input file alone
ConvertedName_NoEpoch(e, file) == file

\* f'{epoch}_{os.path.basename(file)}'
ConvertedName(e, file) == StrNat(e) \o << "_" >> \o file

\* the features are normalized with the statistics of the target domain
Converted_TargetNorm(file, st, m) ==
    [ kind |-> "wav", source |-> file,
      mean_log_src |-> st.log_f0s_mean_A, std_log_src |-> st.log_f0s_std_A,
      mean_log_target |-> st.log_f0s_mean_B, std_log_target |-> st.log_f0s_std_B,
      norm_mean |-> st.coded_sps_B_mean, norm_std |-> st.coded_sps_B_std,
      denorm_mean |-> st.coded_sps_B_mean, denorm_std |-> st.coded_sps_B_std,
      direction |-> "A2B", model |-> m ]

\* the converted waveform of one file: what it was computed from
Converted(file, st, m) ==
    [ kind |-> "wav", source |-> file,
      mean_log_src |-> st.log_f0s_mean_A, std_log_src |-> st.log_f0s_std_A,
      mean_log_target |-> st.log_f0s_mean_B, std_log_target |-> st.log_f0s_std_B,
      norm_mean |-> st.coded_sps_A_mean, norm_std |-> st.coded_sps_A_std,
      denorm_mean |-> st.coded_sps_B_mean, denorm_std |-> st.coded_sps_B_std,
      direction |-> "A2B", model |-> m ]

\* one file of the validation directory, converted and written
ConvertFile ==
    /\ pc = "validate"
    /\ todo # << >>
    /\ validation_A_output_dir' =
          Some(WriteFile(Val(validation_A_output_dir), ConvertedName(epoch, Head(todo)),
                         Converted(Head(todo), Val(stats), Val(model))))
    /\ todo' = Tail(todo)
    /\ UNCHANGED << sound, loads, argv, env, pc, failure, n_frames, validation_A_dir, stats, model_dir,
                    model, loop, schedule, lastCall, epochSaves, valEpochs >>

\* what train() does with an exception raised while one file is converted:
\* nothing catches it, the files that remain are dropped with the run
ValidationFailure ==
    /\ Crash("validation")
    /\ UNCHANGED << todo, validation_A_output_dir, epoch >>

\* one file of the validation directory whose conversion raises
ConvertFileFails ==
    /\ pc = "validate"
    /\ todo # << >>
    /\ ValidationFailure
    /\ UNCHANGED << sound, loads, argv, env, n_frames, validation_A_dir, stats, model_dir, model,
                    i, n_samples, schedule, lastCall, epochSaves, valEpochs >>

\* the validation directory is exhausted: on to the next epoch
EndValidation ==
    /\ pc = "validate"
    /\ todo = << >>
    /\ epoch' = epoch + 1
    /\ pc' = "epoch"
    /\ UNCHANGED << sound, loads, argv, env, failure, n_frames, validation_A_dir, stats, model_dir,
                    validation_A_output_dir, model, i, n_samples, schedule, lastCall, todo,
                    epochSaves, valEpochs >>

\* the final checkpoint is written under the per-epoch name
FinalSave_UnderEpochName ==
    /\ pc = "epoch"
    /\ epoch >= num_epochs
    /\ model_dir' = WriteFile(model_dir, EpochCheckpointName(n_frames, argv.model_name),
                              CheckpointOf(Val(model)))
    /\ pc' = "done"
    /\ UNCHANGED << sound, loads, argv, env, failure, n_frames, validation_A_dir, stats,
                    validation_A_output_dir, model, loop, schedule, lastCall, todo,
                    epochSaves, valEpochs >>

\* model.save under the canonical name, after the last epoch
FinalSave ==
    /\ pc = "epoch"
    /\ epoch >= num_epochs
    /\ model_dir' = WriteFile(model_dir, argv.model_name, CheckpointOf(Val(model)))
    /\ pc' = "done"
    /\ UNCHANGED << sound, loads, argv, env, failure, n_frames, validation_A_dir, stats,
                    validation_A_output_dir, model, loop, schedule, lastCall, todo,
                    epochSaves, valEpochs >>

Next ==
    \/ ParseArgs
    \/ LoadCorpus
    \/ LoadCorpusFails
    \/ FitStatistics
    \/ PersistStatistics
    \/ MakeOutputDir
    \/ InitModel
    \/ SampleTrainData
    \/ TrainStep
    \/ TrainStepFails
    \/ SaveEpoch
    \/ BeginValidation
    \/ SkipValidation
    \/ ConvertFile
    \/ ConvertFileFails
    \/ EndValidation
    \/ FinalSave

Spec == Init /\ [][Next]_vars

(* ---------------------- the schedule of a long run ---------------------- *)
(* A run over BigCorpus utterances takes num_epochs * BigCorpus iterations.  *)
(* SpecSchedule follows it in windows of SchedWindow iterations around the   *)
(* points where the schedule changes: it starts in the state the run has     *)
(* after t iterations, at the head of the iteration loop, and takes the      *)
(* same steps as Spec. ScheduleClosedForm, an invariant of both              *)
(* specifications, is what the starting states are computed from.            *)

\* how many of the iterations 0..t-1 had a counter beyond the threshold
DecayedSteps(t) == Max(0, t - 1 - schedule_threshold)

RateAfter(t, init, decay) == Max(learning_rate_floor, init - decay * DecayedSteps(t))

LambdaAfter(t) ==
    IF DecayedSteps(t) > 0 THEN lambda_identity_reduced ELSE lambda_identity_init

\* the counter at which a rate first equals the floor
FloorCounter(init, decay) == schedule_threshold + (init - learning_rate_floor) \div decay

SchedStarts ==
    { schedule_threshold - 1,
      FloorCounter(discriminator_learning_rate_init, discriminator_learning_rate_decay) - 2,
      FloorCounter(generator_learning_rate_init, generator_learning_rate_decay) - 2,
      BigCorpus * ((schedule_threshold \div BigCorpus) + 2) - 2,
      BigCorpus * num_epochs - 2 }

InWindow(c) == \E s \in SchedStarts : s <= c /\ c < s + SchedWindow

InitSchedule ==
    /\ argv \in [num_f : NumFArgs, validation_A_dir : ValidationDirArgs,
                 model_name : ModelNameArgs]
    /\ ~IsNone(argv.num_f) /\ ~ArgsRejected(argv)
    /\ NamesNone(argv.validation_A_dir)
    /\ env = [usable |-> BigCorpus, listing |-> << >>]
    /\ pc = "train"
    /\ failure = None
    /\ n_frames = ParsedNumF(argv)
    /\ validation_A_dir = ParsedValidationDir(argv.validation_A_dir)
    /\ stats = Some(FittedStatistics)
    /\ validation_A_output_dir = None
    /\ todo = << >>
    /\ valEpochs = {}
    /\ loads = IF LoadsCheckpoint(n_frames) THEN 1 ELSE 0
    /\ wav_synthesized = None
    /\ wav_transformed = None
    /\ n_samples = BigCorpus
    /\ \E t \in SchedStarts :
          /\ epoch = t \div BigCorpus
          /\ i = t % BigCorpus
          /\ epochSaves = epoch
          /\ model = Some([ base |-> IF LoadsCheckpoint(n_frames) THEN "earlier run"
                                     ELSE "fresh",
                            updates |-> t ])
          /\ model_dir =
                LET started == PersistedDir(WriteFile(EmptyDir, argv.model_name,
                                                      OldCheckpoint), FittedStatistics)
                IN  IF epoch = 0 THEN started
                    ELSE WriteFile(started, EpochCheckpointName(n_frames, argv.model_name),
                                   CheckpointOf([Val(model) EXCEPT
                                                    !.updates = BigCorpus * epoch]))
          /\ num_iterations = t - 1
          /\ lambda_identity = LambdaAfter(t)
          /\ generator_learning_rate =
                RateAfter(t, generator_learning_rate_init, generator_learning_rate_decay)
          /\ discriminator_learning_rate =
                RateAfter(t, discriminator_learning_rate_init,
                          discriminator_learning_rate_decay)
          /\ lastCall = Some([ num_iterations |-> num_iterations,
                               epoch |-> (t - 1) \div BigCorpus,
                               lambda_cycle |-> lambda_cycle,
                               lambda_identity |-> lambda_identity,
                               generator_lr |-> generator_learning_rate,
                               discriminator_lr |-> discriminator_learning_rate ])

WindowTrainStep == InWindow(NumIterations(n_samples, epoch, i)) /\ TrainStep

WindowTrainStepFails == InWindow(NumIterations(n_samples, epoch, i)) /\ TrainStepFails

NextSchedule ==
    \/ SampleTrainData
    \/ WindowTrainStep
    \/ WindowTrainStepFails
    \/ SaveEpoch
    \/ SkipValidation
    \/ FinalSave

SpecSchedule == InitSchedule /\ [][NextSchedule]_vars

\* how many times the schedule was evaluated
Evaluations == IF IsNone(lastCall) THEN 0 ELSE Val(lastCall).num_iterations + 1

\* the schedule as a function of the number of iterations made
ScheduleClosedForm ==
    /\ lambda_identity = LambdaAfter(Evaluations)
    /\ generator_learning_rate =
          RateAfter(Evaluations, generator_learning_rate_init, generator_learning_rate_decay)
    /\ discriminator_learning_rate =
          RateAfter(Evaluations, discriminator_learning_rate_init,
                    discriminator_learning_rate_decay)
    /\ ~IsNone(model) =>
          Val(model).updates = IF failure = Some("model.train") THEN Evaluations - 1
                               ELSE Evaluations

(* --------------------- a run that passes the threshold ------------------ *)
\* the smallest corpus whose run of num_epochs epochs passes the threshold
CrossCorpus == (schedule_threshold \div num_epochs) + 1

\* SpecLong is Spec for one command line, over CrossCorpus utterances
InitLong ==
    /\ argv = [ num_f |-> Some(<< "1", "2", "8" >>), validation_A_dir |-> << "v", "a", "l" >>,
                model_name |-> << "m" >> ]
    /\ env = [usable |-> CrossCorpus, listing |-> << ValFileName(1) >>]
    /\ model_dir = EmptyDir
    /\ pc = "parse"
    /\ failure = None
    /\ n_frames = None
    /\ validation_A_dir = None
    /\ stats = None
    /\ validation_A_output_dir = None
    /\ model = None
    /\ epoch = 0
    /\ i = 0
    /\ n_samples = 0
    /\ num_iterations = 0
    /\ lambda_identity = lambda_identity_init
    /\ generator_learning_rate = generator_learning_rate_init
    /\ discriminator_learning_rate = discriminator_learning_rate_init
    /\ lastCall = None
    /\ todo = << >>
    /\ epochSaves = 0
    /\ valEpochs = {}
    /\ loads = 0
    /\ wav_synthesized = None
    /\ wav_transformed = None

SpecLong == InitLong /\ [][Next]_vars

(* ------------------------------ properties ----------------------------- *)
Call == Val(lastCall)

Trains == ~IsNone(lastCall)

EpochCheckpoint == EpochCheckpointName(n_frames, argv.model_name)

CheckpointFiles == { f \in DOMAIN model_dir : model_dir[f].kind = "checkpoint" }

ArchivesWritten ==
    /\ Exists(model_dir, LogF0Archive)
    /\ Exists(model_dir, McepArchive)

\* C1: at every call of the training step, and in every state of the run, the
\* generator and the discriminator learning rate are at least the floor 0.00001.
LearningRatesAtLeastFloor ==
    /\ generator_learning_rate >= learning_rate_floor
    /\ discriminator_learning_rate >= learning_rate_floor
    /\ Trains => /\ Call.generator_lr >= learning_rate_floor
                 /\ Call.discriminator_lr >= learning_rate_floor

\* a training step so late that both rates, undefended, would be below the floor
FloorReached ==
    /\ Trains
    /\ generator_learning_rate_init
          - generator_learning_rate_decay * (Call.num_iterations - schedule_threshold)
          < learning_rate_floor
    /\ discriminator_learning_rate_init
          - discriminator_learning_rate_decay * (Call.num_iterations - schedule_threshold)
          < learning_rate_floor
    /\ Call.generator_lr = learning_rate_floor
    /\ Call.discriminator_lr = learning_rate_floor

\* C2: the identity-loss weight passed to a training step is the initial value 5
\* when the step's counter is at most 100000 and the reduced value 0.5 beyond.
IdentityWeightFollowsCounter ==
    Trains => Call.lambda_identity =
                 IF Call.num_iterations <= schedule_threshold THEN lambda_identity_init
                 ELSE lambda_identity_reduced

\* the first training step beyond the threshold, with the reduced weight
FirstReducedStep ==
    /\ Trains
    /\ Call.num_iterations = schedule_threshold + 1
    /\ Call.lambda_identity = lambda_identity_reduced
    /\ pc = "train"

\* C3: both statistics archives are written after the statistics are fitted and
\* before the first training step: no training step is made without both archives,
\* each holding mean_A, std_A, mean_B, std_B as fitted.
ArchivesBeforeTraining ==
    /\ (Exists(model_dir, LogF0Archive) \/ Exists(model_dir, McepArchive)) => ~IsNone(stats)
    /\ Trains =>
          /\ ArchivesWritten
          /\ model_dir[LogF0Archive] = LogF0ArchiveOf(FittedStatistics)
          /\ model_dir[McepArchive] = McepArchiveOf(FittedStatistics)

\* the first training step of a run, with both archives on disk
FirstStepAfterArchives ==
    /\ Trains
    /\ Call.num_iterations = 0
    /\ ArchivesWritten

\* every converted file was computed with the statistics held by the archives:
\* those of A to normalize and as pitch source, those of B to denormalize and as
\* pitch target
ValidationUsesPersisted ==
    ~IsNone(validation_A_output_dir) =>
       \A f \in DOMAIN Val(validation_A_output_dir) :
          LET w == Val(validation_A_output_dir)[f]
              pitch == model_dir[LogF0Archive]
              coded == model_dir[McepArchive]
          IN  /\ w.mean_log_src = pitch.mean_A /\ w.std_log_src = pitch.std_A
              /\ w.mean_log_target = pitch.mean_B /\ w.std_log_target = pitch.std_B
              /\ w.norm_mean = coded.mean_A /\ w.norm_std = coded.std_A
              /\ w.denorm_mean = coded.mean_B /\ w.denorm_std = coded.std_B

\* no step changes the statistics once fitted, nor an archive once written
StatisticsKept ==
    /\ ~IsNone(stats) => stats' = stats
    /\ ArchivesWritten =>
          /\ Exists(model_dir', LogF0Archive) /\ Exists(model_dir', McepArchive)
          /\ model_dir'[LogF0Archive] = model_dir[LogF0Archive]
          /\ model_dir'[McepArchive] = model_dir[McepArchive]

\* C4: once fitted, the statistics are never changed by a later step, and every
\* validation pass uses exactly the persisted values.
StatisticsFrozen == []ValidationUsesPersisted /\ [][StatisticsKept]_vars

\* a validation pass of a later epoch, after training steps, has written a file
LaterValidationWritten ==
    /\ ~IsNone(validation_A_output_dir)
    /\ Exists(Val(validation_A_output_dir), ConvertedName(validation_period, ValFileName(1)))
    /\ Val(model).updates > 0

\* the epoch's checkpoint is written and the run has not moved to the next epoch
SavedThisEpoch ==
    \/ pc \in { "saved", "validate" }
    \/ pc = "crashed" /\ failure = Some("validation")

\* C5: every epoch whose iterations complete is checkpointed at its end, after its
\* last training step and before the first training step of the next epoch,
\* whatever the validation configuration, the epoch and the number of segments.
EpochsCheckpointed ==
    /\ epochSaves = IF SavedThisEpoch THEN epoch + 1 ELSE epoch
    /\ SavedThisEpoch =>
          /\ Exists(model_dir, EpochCheckpoint)
          /\ model_dir[EpochCheckpoint] = CheckpointOf(Val(model))
    /\ (~SavedThisEpoch /\ epoch > 0) =>
          /\ Exists(model_dir, EpochCheckpoint)
          /\ model_dir[EpochCheckpoint].model.updates = n_samples * epoch

\* a training step of an epoch that follows an epoch without validation
StepAfterPlainEpoch ==
    /\ pc = "train"
    /\ epoch = 3
    /\ i = 1
    /\ epochSaves = 3
    /\ IsNone(validation_A_dir)

FailedInTraining == failure = Some("model.train")

\* the state in which a failed training step leaves the run
StoppedByTraining ==
    FailedInTraining =>
       /\ pc = "crashed"
       /\ epoch = Call.epoch
       /\ epochSaves = epoch
       /\ Exists(model_dir, argv.model_name) => model_dir[argv.model_name] = OldCheckpoint
       /\ IF epoch = 0 THEN ~Exists(model_dir, EpochCheckpoint)
          ELSE model_dir[EpochCheckpoint].model.updates = n_samples * epoch

\* C6: a failing training step in epoch e ends the run at once: it is not caught
\* or retried, no checkpoint is written for e, no final checkpoint, and no later
\* step is made; the checkpoints are those of the epochs before e.
TrainingFailureEndsRun == []StoppedByTraining /\ [][pc # "crashed"]_vars

\* a training step has failed in the middle of a later epoch
FailedMidEpoch ==
    /\ FailedInTraining
    /\ pc = "crashed"
    /\ epoch = 2
    /\ i = 1

\* the last epoch whose validation has been decided
LastDecided ==
    IF pc = "validate" \/ (pc = "crashed" /\ failure = Some("validation"))
    THEN epoch ELSE epoch - 1

\* the validation passes made so far are those of the multiples of the period,
\* when validation is configured, and none otherwise
ValidationEpochsAre(configured) ==
    /\ valEpochs = IF configured /\ LastDecided >= 0
                   THEN { validation_period * k : k \in 0..(LastDecided \div validation_period) }
                   ELSE {}
    /\ ~configured => IsNone(validation_A_output_dir)

\* C7, as stated: validation runs in epoch e exactly when the validation A
\* directory is not the text none and e is a multiple of 5.
ValidationWhenNotNone == ValidationEpochsAre(argv.validation_A_dir # << "n", "o", "n", "e" >>)

\* C7, amended: validation runs in epoch e exactly when the validation A directory
\* is not none in any letter case and e is a multiple of 5 (so in epoch 0);
\* otherwise it never runs and nothing is written.
ValidationWhenConfigured == ValidationEpochsAre(~NamesNone(argv.validation_A_dir))

\* epochs 0 and 5 were validated and epochs 1 to 4 and 6 were not
ValidatedZeroAndFive ==
    /\ pc = "epoch"
    /\ epoch = validation_period + 2
    /\ valEpochs = { 0, validation_period }
    /\ Exists(Val(validation_A_output_dir), ConvertedName(0, ValFileName(1)))

\* C8: a failure while one validation file is converted does not end the pass:
\* the run goes on with the files that remain.
ValidationFailureIsolated == failure = Some("validation") => pc # "crashed"

\* C9, as stated: a completed run with n_frames = 128 leaves exactly one
\* checkpoint file in the model directory, with the two archives.
OneCheckpointWhenDone ==
    (pc = "done" /\ n_frames = Some(default_n_frames)) =>
       /\ Cardinality(CheckpointFiles) = 1
       /\ ArchivesWritten

\* C9, amended: a completed run with n_frames = 128 leaves exactly two checkpoint
\* files in the model directory, the per-epoch one and the canonical one, with
\* the two archives.
TwoCheckpointsWhenDone ==
    (pc = "done" /\ n_frames = Some(default_n_frames)) =>
       /\ CheckpointFiles = { EpochCheckpoint, argv.model_name }
       /\ Cardinality(CheckpointFiles) = 2
       /\ ArchivesWritten

\* a run with n_frames = 128 has completed
DoneWithDefaultFrames ==
    /\ pc = "done"
    /\ n_frames = Some(default_n_frames)
    /\ epochSaves = num_epochs

\* the frame length is missing from the command line, or is no integer
ConfigurationError == IsNone(argv.num_f) \/ ~IsIntText(Val(argv.num_f))

\* C10: with the frame length missing or invalid the run aborts before any
\* processing: no corpus loaded, no archive or directory written, no checkpoint
\* loaded, no training step.
ConfigurationErrorAborts ==
    ConfigurationError =>
       /\ pc \in { "parse", "usage_error" }
       /\ IsNone(stats)
       /\ ~Exists(model_dir, LogF0Archive)
       /\ ~Exists(model_dir, McepArchive)
       /\ IsNone(validation_A_output_dir)
       /\ IsNone(model)
       /\ ~Trains

\* the state of a run that has ended without a failure
CompletedRun ==
    pc = "done" =>
       /\ IsNone(failure)
       /\ epoch = num_epochs
       /\ epochSaves = num_epochs
       /\ Val(model).updates = (n_samples \div mini_batch_size) * num_epochs
       /\ Exists(model_dir, argv.model_name)
       /\ model_dir[argv.model_name] = CheckpointOf(Val(model))
       /\ model_dir[EpochCheckpoint] = CheckpointOf(Val(model))
       /\ EpochCheckpoint # argv.model_name

\* the per-epoch name of every accepted command line differs from its canonical name
NamesDiffer ==
    \A a \in [num_f : NumFArgs, model_name : ModelNameArgs] :
       ~ArgsRejected(a) => EpochCheckpointName(ParsedNumF(a), a.model_name) # a.model_name

\* a run that has not ended can take a step
NotStuck == pc \notin { "done", "crashed", "usage_error" } => ENABLED Next

\* the epochs are taken one by one, each after the checkpoint of the one before,
\* and nothing follows the final checkpoint
EpochsInOrder ==
    /\ pc # "done"
    /\ epoch' # epoch => /\ epoch' = epoch + 1
                         /\ epoch < num_epochs
                         /\ epochSaves = epoch + 1

\* C11: a run without failure takes the epochs 0..num_epochs-1 in order, each
\* once, and ends; after the last epoch it writes one final checkpoint under the
\* canonical name, which differs from the per-epoch name, and nothing after it.
RunEndsWithFinalCheckpoint ==
    [](CompletedRun /\ NamesDiffer /\ NotStuck) /\ [][EpochsInOrder]_vars

\* a run with training steps and validation passes has ended
CompletedWithValidation ==
    /\ pc = "done"
    /\ n_samples > 0
    /\ ~IsNone(validation_A_output_dir)
    /\ Exists(model_dir, argv.model_name)

\* a validation pass has begun and not ended
PassInProgress == pc = "validate" \/ (pc = "crashed" /\ failure = Some("validation"))

\* the epoch of the latest validation pass that has ended
LastPass ==
    IF PassInProgress THEN epoch - validation_period
    ELSE ((epoch - 1) \div validation_period) * validation_period

\* how many files the validation passes have written if none replaced another
OutputsExpected ==
    IF PassInProgress
    THEN (Cardinality(valEpochs) - 1) * Len(env.listing) + (Len(env.listing) - Len(todo))
    ELSE Cardinality(valEpochs) * Len(env.listing)

\* C12: after a validation pass at epoch e each input file has exactly one output,
\* named from e and the input's name, and no output of one epoch or file replaces
\* that of another: the outputs are as many as the conversions made.
OneOutputPerInput ==
    ~IsNone(validation_A_output_dir) =>
       /\ Cardinality(DOMAIN Val(validation_A_output_dir)) = OutputsExpected
       /\ LastPass \in valEpochs =>
             \A k \in 1..Len(env.listing) :
                LET name == ConvertedName(LastPass, env.listing[k])
                IN  /\ Exists(Val(validation_A_output_dir), name)
                    /\ Val(validation_A_output_dir)[name].source = env.listing[k]
                    /\ Val(validation_A_output_dir)[name].model.updates
                          = (n_samples \div mini_batch_size) * (LastPass + 1)

\* two passes over two files have ended and left four files
TwoPassesFourOutputs ==
    /\ pc = "epoch"
    /\ epoch = validation_period + 1
    /\ Len(env.listing) = 2
    /\ n_samples > 0
    /\ ~IsNone(validation_A_output_dir)
    /\ Cardinality(DOMAIN Val(validation_A_output_dir)) = 4

(* ------------------------ the sanitized waveform ----------------------- *)
\* most samples of a waveform
MaxWavLen == 3

\* the samples of a synthesized waveform: finite values and the three values
\* that are not finite
Samples == { "0.0", "0.5", "nan", "inf", "-inf" }

IsFinite(x) == x \notin { "nan", "inf", "-inf" }

\* np.nan_to_num with its default arguments, on one sample: nan becomes zero, an
\* infinity becomes the largest finite value of the array's type, with its sign
NanToNumSample(x) ==
    CASE x = "nan" -> "0.0"
      [] x = "inf" -> "max"
      [] x = "-inf" -> "-max"
      [] OTHER -> x

\* np.nan_to_num(wav_transformed)
NanToNum(wav) == [k \in 1..Len(wav) |-> NanToNumSample(wav[k])]

Waveforms == UNION { [1..n -> Samples] : n \in 1..MaxWavLen }

\* SpecSanitize applies np.nan_to_num to every waveform that
\* world_speech_synthesis can return, in the first validation pass
InitSanitize ==
    /\ argv = [ num_f |-> Some(<< "1", "2", "8" >>), validation_A_dir |-> << "v", "a", "l" >>,
                model_name |-> << "m" >> ]
    /\ env = [usable |-> 0, listing |-> << ValFileName(1) >>]
    /\ pc = "synthesized"
    /\ failure = None
    /\ n_frames = ParsedNumF(argv)
    /\ validation_A_dir = ParsedValidationDir(argv.validation_A_dir)
    /\ stats = Some(FittedStatistics)
    /\ model_dir = WriteFile(PersistedDir(EmptyDir, FittedStatistics),
                             EpochCheckpointName(n_frames, argv.model_name),
                             CheckpointOf(FreshModel))
    /\ validation_A_output_dir = Some(EmptyDir)
    /\ model = Some(FreshModel)
    /\ epoch = 0
    /\ i = 0
    /\ n_samples = 0
    /\ num_iterations = 0
    /\ lambda_identity = lambda_identity_init
    /\ generator_learning_rate = generator_learning_rate_init
    /\ discriminator_learning_rate = discriminator_learning_rate_init
    /\ lastCall = None
    /\ todo = env.listing
    /\ epochSaves = 1
    /\ valEpochs = { 0 }
    /\ loads = 0
    /\ \E w \in Waveforms :
          /\ wav_synthesized = Some(w)
          /\ wav_transformed = Some(w)

\* wav_transformed = np.nan_to_num(wav_transformed)
Sanitize ==
    /\ pc = "synthesized"
    /\ wav_transformed' = Some(NanToNum(Val(wav_transformed)))
    /\ pc' = "sanitized"
    /\ UNCHANGED << wav_synthesized, loads, argv, env, failure, n_frames, validation_A_dir,
                    stats, model_dir, validation_A_output_dir, model, loop, schedule,
                    lastCall, todo, epochSaves, valEpochs >>

NextSanitize == Sanitize

SpecSanitize == InitSanitize /\ [][NextSanitize]_vars

\* C13: every sample that is not finite (NaN, +infinity, -infinity) is replaced by
\* zero before the waveform is written, the finite samples are unchanged, and
\* every sample written is finite.
NonFiniteBecomesZero ==
    pc = "sanitized" =>
       /\ Len(Val(wav_transformed)) = Len(Val(wav_synthesized))
       /\ \A k \in 1..Len(Val(wav_synthesized)) :
             /\ IsFinite(Val(wav_transformed)[k])
             /\ Val(wav_transformed)[k] =
                   IF IsFinite(Val(wav_synthesized)[k]) THEN Val(wav_synthesized)[k]
                   ELSE "0.0"

(* ---------------------- the schedule, step by step ---------------------- *)
\* the training step made before this one, if any
PreviousGeneratorRate ==
    IF IsNone(lastCall) THEN generator_learning_rate_init ELSE Call.generator_lr

PreviousDiscriminatorRate ==
    IF IsNone(lastCall) THEN discriminator_learning_rate_init ELSE Call.discriminator_lr

RatesInitialUpToThreshold ==
    (Trains /\ Call.num_iterations <= schedule_threshold) =>
       /\ Call.generator_lr = generator_learning_rate_init
       /\ Call.discriminator_lr = discriminator_learning_rate_init

RatesDecayByDecrement ==
    (lastCall' # lastCall /\ Val(lastCall').num_iterations > schedule_threshold) =>
       /\ Val(lastCall').generator_lr =
             Max(learning_rate_floor,
                 PreviousGeneratorRate - generator_learning_rate_init \div decay_divisor)
       /\ Val(lastCall').discriminator_lr =
             Max(learning_rate_floor,
                 PreviousDiscriminatorRate
                    - discriminator_learning_rate_init \div decay_divisor)

\* C14: a training step whose counter is at most 100000 gets the initial learning
\* rates; a training step whose counter is beyond 100000 gets, for each rate, the
\* larger of the floor and the previous step's rate less the fixed decrement, the
\* initial rate divided by 5000000.
RatesFollowSchedule ==
    []RatesInitialUpToThreshold /\ [][RatesDecayByDecrement]_vars

\* the second training step beyond the threshold: two decrements off each rate
SecondDecayedStep ==
    /\ Trains
    /\ Call.num_iterations = schedule_threshold + 2
    /\ Call.generator_lr =
          generator_learning_rate_init - 2 * (generator_learning_rate_init \div decay_divisor)
    /\ Call.discriminator_lr =
          discriminator_learning_rate_init
             - 2 * (discriminator_learning_rate_init \div decay_divisor)
    /\ Call.generator_lr > learning_rate_floor

(* --------------------------- the global counter ------------------------- *)
CounterAdvances ==
    /\ num_iterations' >= num_iterations
    /\ lastCall' # lastCall =>
          Val(lastCall').num_iterations =
             IF IsNone(lastCall) THEN 0 ELSE Call.num_iterations + 1

\* C15: the counter passed to the first training step of a run is 0, the counter
\* of every later step is one more than that of the step before it, also when an
\* epoch has ended in between, and the counter never decreases.
CounterRunsAcrossEpochs ==
    [](Trains => Call.num_iterations = num_iterations) /\ [][CounterAdvances]_vars

\* the first training step of the second epoch, over a corpus of two utterances
FirstStepOfSecondEpoch ==
    /\ Trains
    /\ Call.epoch = 1
    /\ i = 1
    /\ n_samples = 2
    /\ Call.num_iterations = 2

(* --------------------------- the startup load -------------------------- *)
LoadedAsConfigured ==
    /\ loads <= 1
    /\ IsNone(model) => loads = 0
    /\ ~IsNone(model) => loads = IF n_frames # Some(default_n_frames) THEN 1 ELSE 0

LoadOnlyAtStartup ==
    loads' # loads =>
       /\ loads' = loads + 1
       /\ pc = "model"
       /\ IsNone(model) /\ ~IsNone(model')
       /\ IsNone(lastCall) /\ IsNone(lastCall')
       /\ epochSaves = 0 /\ epochSaves' = 0
       /\ model_dir' = model_dir

\* C16: a run loads a checkpoint at most once, in the step that creates the model,
\* before any training step and before it saves any checkpoint; once the model is
\* created the run has loaded a checkpoint exactly when n_frames is not 128, so
\* with n_frames 128 none is loaded, also when the model directory holds one.
CheckpointLoadedOnceAtStartup ==
    []LoadedAsConfigured /\ [][LoadOnlyAtStartup]_vars

\* a run with n_frames 64 that trains the model it loaded
TrainsLoadedModel ==
    /\ n_frames = Some(64)
    /\ loads = 1
    /\ Trains
    /\ Val(model).base = "earlier run"
    /\ epochSaves = 1

(* ------------------------- the schedule is monotone --------------------- *)
ScheduleMonotone ==
    /\ generator_learning_rate' <= generator_learning_rate
    /\ discriminator_learning_rate' <= discriminator_learning_rate
    /\ lambda_identity = lambda_identity_reduced => lambda_identity' = lambda_identity_reduced
    /\ (Trains /\ lastCall' # lastCall) =>
          /\ Val(lastCall').generator_lr <= Call.generator_lr
          /\ Val(lastCall').discriminator_lr <= Call.discriminator_lr
          /\ Call.lambda_identity = lambda_identity_reduced =>
                Val(lastCall').lambda_identity = lambda_identity_reduced

\* C17: no step of a run raises a learning rate, and once the identity-loss weight
\* is the reduced value no step sets it to anything else, in the same epoch or in
\* a later one.
ScheduleNeverGoesBack == [][ScheduleMonotone]_vars

\* a training step of a later epoch than the one in which the weight was reduced
ReducedInLaterEpoch ==
    /\ Trains
    /\ Call.epoch = (schedule_threshold \div BigCorpus) + 2
    /\ i = 2
    /\ Call.lambda_identity = lambda_identity_reduced
    /\ lambda_identity = lambda_identity_reduced
    /\ Call.generator_lr < generator_learning_rate_init
    /\ Call.discriminator_lr < discriminator_learning_rate_init

(* ------------------------ the per-epoch checkpoint ---------------------- *)
\* the model as it was when the latest epoch ended
ModelOfLastEpoch == [Val(model) EXCEPT !.updates = n_samples * epochSaves]

\* C18: the checkpoints of a run are under at most two names, the per-epoch name
\* made of n_frames and the model name and the canonical name; the per-epoch file
\* is overwritten by every epoch and holds the model of the latest completed epoch.
EpochCheckpointOverwritten ==
    /\ CheckpointFiles \subseteq
          { Str(n_frames) \o << "_" >> \o argv.model_name, argv.model_name }
    /\ Cardinality(CheckpointFiles) <= 2
    /\ epochSaves > 0 =>
          /\ Exists(model_dir, EpochCheckpoint)
          /\ model_dir[EpochCheckpoint] = CheckpointOf(ModelOfLastEpoch)

\* the fourth epoch under way: one checkpoint file, holding the third epoch's model
ThreeEpochsOneFile ==
    /\ epochSaves = 3
    /\ pc = "train"
    /\ i = 1
    /\ n_samples = 2
    /\ CheckpointFiles = { EpochCheckpoint }
    /\ model_dir[EpochCheckpoint].model.updates = 6
    /\ Val(model).updates = 7

====
